---- MODULE Spec2Model ----
(***************************************************************************)
(* Model of the request router of go-restapi: Router.ServeHTTP with its    *)
(* route table, the Authorization/Permission delegate chain, the CORS      *)
(* resolution of CORSConfig.HandleCORS and RouteContext's permission check.*)
(*                                                                         *)
(* Strings that the code splits or trims (paths) are sequences of one-     *)
(* character strings; strings that are only compared or joined (methods,   *)
(* origins, header values) are TLA+ strings.  "" is Go's empty string.     *)
(***************************************************************************)
EXTENDS Integers, Sequences, FiniteSets, TLC

\* ------------------------------------------------------------------ bounds
MaxRoutes == 2      \* routes registered on the Router
MaxHeld == 2        \* length of the held-permission list asked about
MaxRequired == 2    \* length of a required-permission list
MaxOrigins == 2     \* length of CORSConfig.AllowedOrigins
MaxMembers == 2     \* member Routers of the MultiRouter
MaxInFlight == 2    \* requests one Router serves at the same time

\* --------------------------------------------------------- program values
StatusOK == 200
StatusUnauthorized == 401
StatusForbidden == 403
StatusNotFound == 404
StatusInternalServerError == 500

Nil == "nil"                      \* Go's nil (slice, pointer or func)
OriginA == "https://a.com"
OriginB == "https://b.com"
Wildcard == "*"

ACAO == "Access-Control-Allow-Origin"
ACAM == "Access-Control-Allow-Methods"
ACAH == "Access-Control-Allow-Headers"
ACAC == "Access-Control-Allow-Credentials"
ACMA == "Access-Control-Max-Age"
CORSHeaderNames == {ACAO, ACAM, ACAH, ACAC, ACMA}

\* ------------------------------------------------------------ Go helpers
\* a Go map: a function whose DOMAIN is the set of keys present
EmptyMap == [k \in {} |-> ""]
MapSet(m, key, value) == [k \in DOMAIN m \cup {key} |-> IF k = key THEN value ELSE m[k]]
\* http.Header.Get: the value, or "" when the header is absent
HeaderGet(h, key) == IF key \in DOMAIN h THEN h[key] ELSE ""

RECURSIVE SplitAcc(_, _, _)
SplitAcc(s, cur, acc) ==
    IF s = <<>> THEN Append(acc, cur)
    ELSE IF Head(s) = "/" THEN SplitAcc(Tail(s), <<>>, Append(acc, cur))
    ELSE SplitAcc(Tail(s), Append(cur, Head(s)), acc)
\* strings.Split(s, "/")
Split(s) == SplitAcc(s, <<>>, <<>>)

\* strings.HasPrefix(s, ":")
HasPrefixColon(s) == Len(s) >= 1 /\ s[1] = ":"

RECURSIVE TrimRightSlash(_)
\* strings.TrimRight(s, "/")
TrimRightSlash(s) ==
    IF s # <<>> /\ s[Len(s)] = "/" THEN TrimRightSlash(SubSeq(s, 1, Len(s) - 1)) ELSE s

RECURSIVE Join(_, _)
\* strings.Join(l, sep)
Join(l, sep) ==
    IF l = <<>> THEN ""
    ELSE IF Len(l) = 1 THEN l[1]
    ELSE l[1] \o sep \o Join(Tail(l), sep)

\* whether s occurs in the list l
InList(s, l) == \E i \in 1..Len(l) : l[i] = s

\* the sequences over S of length at most n
SeqsUpTo(S, n) == UNION {[1..k -> S] : k \in 0..n}

\* a Go slice: nil, or a list of elements
NilSlice == [isNil |-> TRUE, elems |-> <<>>]
Slice(s) == [isNil |-> FALSE, elems |-> s]

\* ------------------------------------------------- RouteContext (router.go)
Permissions == {1, 2, 3}
UserIds == {"alice"}

RECURSIVE HeldLoop(_, _, _)
\* the inner loop of HasRequiredPermissions: scan userPermissions for one
\* required permission, stop at the first hit
HeldLoop(userPermissions, j, requiredPermission) ==
    IF j > Len(userPermissions) THEN FALSE
    ELSE IF userPermissions[j] = requiredPermission THEN TRUE
    ELSE HeldLoop(userPermissions, j + 1, requiredPermission)

RECURSIVE RequiredLoopAny(_, _, _)
\* RequiredLoop that is satisfied by one required permission that is held
RequiredLoopAny(required, i, userPermissions) ==
    IF i > Len(required) THEN FALSE
    ELSE IF HeldLoop(userPermissions, 1, required[i]) THEN TRUE
    ELSE RequiredLoopAny(required, i + 1, userPermissions)

RECURSIVE RequiredLoop(_, _, _)
\* the outer loop: stop with false at the first required permission not held
RequiredLoop(required, i, userPermissions) ==
    IF i > Len(required) THEN TRUE
    ELSE IF ~HeldLoop(userPermissions, 1, required[i]) THEN FALSE
    ELSE RequiredLoop(required, i + 1, userPermissions)

\* RouteContext.HasRequiredPermissions
HasRequiredPermissions(requiredPermissions, userPermissions) ==
    IF requiredPermissions.isNil \/ Len(requiredPermissions.elems) = 0 THEN TRUE
    ELSE RequiredLoop(requiredPermissions.elems, 1, userPermissions)

\* ---------------------------------------------------- CORSConfig (cors.go)
NilCORS ==
    [isNil |-> TRUE, AllowedOrigins |-> <<>>, AllowedMethods |-> <<>>,
     AllowedHeaders |-> <<>>, AllowCredentials |-> FALSE, MaxAge |-> 0]

CORSConfig(origins, methods, headers, credentials, maxAge) ==
    [isNil |-> FALSE, AllowedOrigins |-> origins, AllowedMethods |-> methods,
     AllowedHeaders |-> headers, AllowCredentials |-> credentials, MaxAge |-> maxAge]

DefaultMethods == "GET, POST, PUT, DELETE, OPTIONS"
DefaultHeaders == "Content-Type, Authorization"

RECURSIVE OriginLoopEcho(_, _, _, _)
\* OriginLoop that accepts the request's origin without comparing it
OriginLoopEcho(origins, i, requestOrigin, originHeaderMissing) ==
    IF i > Len(origins) THEN ""
    ELSE IF origins[i] = Wildcard THEN Wildcard
    ELSE IF ~originHeaderMissing THEN requestOrigin
    ELSE OriginLoopEcho(origins, i + 1, requestOrigin, originHeaderMissing)

\* OriginLoop that prefers a wildcard anywhere in the list to the origin
OriginLoopWildcardFirst(origins, i, requestOrigin, originHeaderMissing) ==
    IF InList(Wildcard, origins) THEN Wildcard
    ELSE IF InList(requestOrigin, origins) /\ ~originHeaderMissing THEN requestOrigin
    ELSE ""

RECURSIVE OriginLoop(_, _, _, _)
\* the first loop of HandleCORS over AllowedOrigins, with its two breaks
OriginLoop(origins, i, requestOrigin, originHeaderMissing) ==
    IF i > Len(origins) THEN ""
    ELSE IF origins[i] = Wildcard THEN Wildcard
    ELSE IF origins[i] = requestOrigin /\ ~originHeaderMissing THEN requestOrigin
    ELSE OriginLoop(origins, i + 1, requestOrigin, originHeaderMissing)

\* ShouldSetCORSHeaders that forgets to ask whether the Origin is missing
ShouldSetCORSHeadersAlwaysOn(header, alwaysOn, originHeaderMissing) ==
    HeaderGet(header, ACAO) # "" \/ alwaysOn

\* shouldSetCORSHeaders of HandleCORS: Allow-Origin is in the response, or
\* the toggle is on and the request has no Origin
ShouldSetCORSHeaders(header, alwaysOn, originHeaderMissing) ==
    HeaderGet(header, ACAO) # "" \/ (alwaysOn /\ originHeaderMissing)

\* OverrideWildcard that leaves the wildcard in place
OverrideWildcardNever(header, allowedOrigin, requestOrigin, origins) == header

\* the override of HandleCORS when credentials are allowed: a wildcard
\* Allow-Origin is replaced by the request's origin if the list has it
OverrideWildcard(header, allowedOrigin, requestOrigin, origins) ==
    IF allowedOrigin = Wildcard /\ requestOrigin # "" /\ InList(requestOrigin, origins)
    THEN MapSet(header, ACAO, requestOrigin) ELSE header

\* EmitMaxAge without the test of the request method
EmitMaxAgeAnyMethod(shouldSetCORSHeaders, maxAge, method) ==
    shouldSetCORSHeaders /\ maxAge > 0

\* the condition of HandleCORS for Access-Control-Max-Age
EmitMaxAge(shouldSetCORSHeaders, maxAge, method) ==
    shouldSetCORSHeaders /\ maxAge > 0 /\ method = "OPTIONS"

\* CORSConfig.HandleCORS: the response header after the call, given the
\* response header before it
HandleCORS(config, header, requestOrigin, method, alwaysOn) ==
    LET originHeaderMissing == requestOrigin = ""
        origins == config.AllowedOrigins
        found == IF Len(origins) > 0
                 THEN OriginLoop(origins, 1, requestOrigin, originHeaderMissing)
                 ELSE ""
        allowedOrigin ==
            IF Len(origins) > 0 /\ originHeaderMissing /\ InList(Wildcard, origins)
            THEN Wildcard ELSE found
        h1 == IF allowedOrigin # "" THEN MapSet(header, ACAO, allowedOrigin)
              ELSE IF originHeaderMissing /\ alwaysOn THEN MapSet(header, ACAO, Wildcard)
              ELSE header
        shouldSetCORSHeaders == ShouldSetCORSHeaders(h1, alwaysOn, originHeaderMissing)
        methods == IF Len(config.AllowedMethods) > 0
                   THEN Join(config.AllowedMethods, ",") ELSE DefaultMethods
        headers == IF Len(config.AllowedHeaders) > 0
                   THEN Join(config.AllowedHeaders, ",") ELSE DefaultHeaders
        h2 == IF shouldSetCORSHeaders
              THEN MapSet(MapSet(h1, ACAM, methods), ACAH, headers) ELSE h1
        h3 == IF ~shouldSetCORSHeaders THEN h2
              ELSE IF config.AllowCredentials /\ ~originHeaderMissing
              THEN OverrideWildcard(MapSet(h2, ACAC, "true"), allowedOrigin,
                                    requestOrigin, origins)
              ELSE MapSet(h2, ACAC, "false")
    IN IF EmitMaxAge(shouldSetCORSHeaders, config.MaxAge, method)
       THEN MapSet(h3, ACMA, ToString(config.MaxAge)) ELSE h3

\* CORSAllowed that reports a request whose origin the policy does not list
CORSAllowedOnMatch(config, requestOrigin) ==
    InList(Wildcard, config.AllowedOrigins) \/ InList(requestOrigin, config.AllowedOrigins)

\* The result that Router.ServeHTTP reads from HandleCORS ("allowed").  The
\* HandleCORS of cors.go returns nothing; the value is taken from the design:
\* a CORS non-match omits headers and never stops the dispatch.
CORSAllowed(config, requestOrigin) == TRUE

\* Router.ServeHTTP with no CORSConfig: the four headers it sets itself
DefaultCORS(header, origin) ==
    MapSet(MapSet(MapSet(MapSet(header, ACAO, origin), ACAM, "*"), ACAH, "*"), ACAC, "true")

\* ------------------------------------------------------- Router (router.go)
Route(method, relativePath, requiredPermissions, handler, protected) ==
    [Method |-> method, RelativePath |-> relativePath,
     RequiredPermissions |-> requiredPermissions, Handler |-> handler,
     Protected |-> protected]

\* FixedPath without the special case of the path "/"
FixedPathAlwaysJoin(basePath, path) == TrimRightSlash(basePath) \o path

\* the path a registration stores: BasePath without trailing slashes
\* followed by the path, or BasePath itself for the path "/"
FixedPath(basePath, path) ==
    IF path = <<"/">> THEN basePath ELSE TrimRightSlash(basePath) \o path

\* Router.HandleFunc: the Router after the call
RouterHandleFunc(rt, method, path, handler) ==
    [rt EXCEPT !.Routes =
        Append(@, Route(method, FixedPath(rt.BasePath, path), NilSlice, handler, FALSE))]

\* Router.HandleProtectedFunc: the Router after the call
RouterHandleProtectedFunc(rt, method, path, requiredPermissions, handler) ==
    [rt EXCEPT !.Routes =
        Append(@, Route(method, FixedPath(rt.BasePath, path), requiredPermissions,
                        handler, TRUE))]

RECURSIVE SegmentLoopKeepColon(_, _, _, _)
\* SegmentLoop with the capture stored under the whole segment, ":" included
SegmentLoopKeepColon(routeSegments, pathSegments, i, params) ==
    IF i > Len(routeSegments) THEN [match |-> TRUE, params |-> params]
    ELSE LET routeSegment == routeSegments[i]
         IN IF HasPrefixColon(routeSegment)
            THEN SegmentLoopKeepColon(routeSegments, pathSegments, i + 1,
                                      MapSet(params, routeSegment, pathSegments[i]))
            ELSE IF routeSegment # pathSegments[i]
            THEN [match |-> FALSE, params |-> params]
            ELSE SegmentLoopKeepColon(routeSegments, pathSegments, i + 1, params)

RECURSIVE SegmentLoop(_, _, _, _)
\* the loop of ServeHTTP over the segments of one route: a ":name" segment
\* captures, any other segment must be equal, the first difference breaks
SegmentLoop(routeSegments, pathSegments, i, params) ==
    IF i > Len(routeSegments) THEN [match |-> TRUE, params |-> params]
    ELSE LET routeSegment == routeSegments[i]
         IN IF HasPrefixColon(routeSegment)
            THEN SegmentLoop(routeSegments, pathSegments, i + 1,
                             MapSet(params, Tail(routeSegment), pathSegments[i]))
            ELSE IF routeSegment # pathSegments[i]
            THEN [match |-> FALSE, params |-> params]
            ELSE SegmentLoop(routeSegments, pathSegments, i + 1, params)

\* TryRoute without the comparison of the methods
TryRouteAnyMethod(route, method, path) ==
    LET routeSegments == Split(route.RelativePath)
        pathSegments == Split(path)
    IN IF Len(routeSegments) # Len(pathSegments)
       THEN [match |-> FALSE, params |-> EmptyMap]
       ELSE SegmentLoop(routeSegments, pathSegments, 1, EmptyMap)

\* one iteration of the loop of ServeHTTP over the routes
TryRoute(route, method, path) ==
    LET routeSegments == Split(route.RelativePath)
        pathSegments == Split(path)
    IN IF method # route.Method THEN [match |-> FALSE, params |-> EmptyMap]
       ELSE IF Len(routeSegments) # Len(pathSegments)
       THEN [match |-> FALSE, params |-> EmptyMap]
       ELSE SegmentLoop(routeSegments, pathSegments, 1, EmptyMap)

RECURSIVE RouteLoopLast(_, _, _, _)
\* RouteLoop without the return at the first match: the last match wins
RouteLoopLast(routes, i, method, path) ==
    IF i > Len(routes) THEN 0
    ELSE LET later == RouteLoopLast(routes, i + 1, method, path)
         IN IF later # 0 THEN later
            ELSE IF TryRoute(routes[i], method, path).match THEN i ELSE 0

RECURSIVE RouteLoop(_, _, _, _)
\* the loop of ServeHTTP over router.Routes: the index of the first route
\* that matches, 0 when the loop ends without a match
RouteLoop(routes, i, method, path) ==
    IF i > Len(routes) THEN 0
    ELSE IF TryRoute(routes[i], method, path).match THEN i
    ELSE RouteLoop(routes, i + 1, method, path)

\* a fresh http.ResponseWriter: no status written, no body, no header
NewResponse == [status |-> 0, body |-> "", header |-> EmptyMap]
NoContext ==
    [Params |-> EmptyMap, userId |-> "", requiredPermissions |-> NilSlice,
     CustomData |-> EmptyMap]

\* ResponseWriter.Write: writes the body; the status becomes 200 when no
\* status was written before
Write(resp, text) ==
    [resp EXCEPT !.body = text, !.status = IF @ = 0 THEN StatusOK ELSE @]
\* http.Error and http.NotFound
HttpError(resp, text, code) == [resp EXCEPT !.body = text, !.status = code]

\* IsPreflight comparing with the method in lower case
IsPreflightLowerCase(request) == request.Method = "options"

\* the test of ServeHTTP for a preflight request
IsPreflight(request) == request.Method = "OPTIONS"

\* ConfigError without the check of the Permission delegate
ConfigErrorAuthOnly(rt, route) ==
    IF route.Protected /\ rt.AuthorizationMiddleware = Nil
    THEN "Router.AuthorizationMiddleware is not set"
    ELSE ""

\* ConfigError that checks the delegates for unprotected routes too
ConfigErrorAnyRoute(rt, route) ==
    IF rt.AuthorizationMiddleware = Nil
    THEN "Router.AuthorizationMiddleware is not set"
    ELSE IF rt.PermissionMiddleware = Nil
    THEN "Router.PermissionMiddleware is not set"
    ELSE ""

\* the checks of ServeHTTP on a matched route before it dispatches: the
\* text of the configuration error, "" when there is none
ConfigError(rt, route) ==
    IF route.Protected /\ rt.AuthorizationMiddleware = Nil
    THEN "Router.AuthorizationMiddleware is not set"
    ELSE IF route.Protected /\ rt.PermissionMiddleware = Nil
    THEN "Router.PermissionMiddleware is not set"
    ELSE ""

\* FirstStep that starts the chain of a protected route at the Permission
\* delegate
FirstStepSkipAuth(route) == IF route.Protected THEN "perm" ELSE "handler"

\* what ServeHTTP runs first for a matched route: the Authorization
\* delegate of a protected route, the handler of an unprotected one
FirstStep(route) == IF route.Protected THEN "auth" ELSE "handler"

\* Router.ServeHTTP up to the point where it hands over to a delegate or
\* to the handler: the response so far, the matched route (0: none), the
\* RouteContext and the next step ("done": ServeHTTP has returned)
ServeHTTP(rt, request, resp, alwaysOn) ==
    LET header == IF rt.CORSConfig.isNil
                  THEN DefaultCORS(resp.header, request.Origin)
                  ELSE HandleCORS(rt.CORSConfig, resp.header, request.Origin,
                                  request.Method, alwaysOn)
        allowed == rt.CORSConfig.isNil \/ CORSAllowed(rt.CORSConfig, request.Origin)
        w1 == [resp EXCEPT !.header = header]
        idx == RouteLoop(rt.Routes, 1, request.Method, request.Path)
        route == rt.Routes[idx]
        routeContext ==
            [Params |-> TryRoute(route, request.Method, request.Path).params,
             userId |-> "", requiredPermissions |-> route.RequiredPermissions,
             CustomData |-> EmptyMap]
        stop(r, i) == [w |-> r, matched |-> i, routeContext |-> NoContext, pc |-> "done"]
    IN IF ~allowed THEN stop(Write(w1, "CORS not allowed"), 0)
       ELSE IF IsPreflight(request) THEN stop([w1 EXCEPT !.status = StatusOK], 0)
       ELSE IF idx = 0 THEN stop(HttpError(w1, "404 page not found", StatusNotFound), 0)
       ELSE IF ConfigError(rt, route) # ""
       THEN stop(HttpError(w1, ConfigError(rt, route), StatusInternalServerError), idx)
       ELSE [w |-> w1, matched |-> idx, routeContext |-> routeContext,
             pc |-> FirstStep(route)]

\* ------------------------------------------------------------ MultiRouter
\* strings.HasPrefix(s, prefix)
HasPrefix(s, prefix) == Len(prefix) <= Len(s) /\ SubSeq(s, 1, Len(prefix)) = prefix

\* strings.TrimSuffix(s, "/"): one trailing slash is removed
TrimSuffixSlash(s) ==
    IF s # <<>> /\ s[Len(s)] = "/" THEN SubSeq(s, 1, Len(s) - 1) ELSE s

\* a *MultiRouter: nil, or BasePath, Routers (the member Routers, by their
\* position among the Router objects) and CORSConfig
NilMultiRouter ==
    [isNil |-> TRUE, BasePath |-> <<>>, Routers |-> <<>>, CORSConfig |-> NilCORS]
MultiRouter(basePath, members, corsConfig) ==
    [isNil |-> FALSE, BasePath |-> basePath, Routers |-> members,
     CORSConfig |-> corsConfig]

BasePathError ==
    "basePath cannot be empty or '/' for MultiRouter. If you want to use '/' as basePath, use a single Router instead"

\* Reconfigure that rewrites the routes of the first Router only
ReconfigureFirst(basePath, rs) ==
    [k \in 1..Len(rs) |->
        IF k > 1 THEN rs[k]
        ELSE [rs[k] EXCEPT !.Routes =
                 [i \in 1..Len(rs[k].Routes) |->
                     [rs[k].Routes[i] EXCEPT !.RelativePath = basePath \o @]]]]

\* the loops of NewMultiRouter over the Routers and their Routes: every
\* stored template gets basePath in front
Reconfigure(basePath, rs) ==
    [k \in 1..Len(rs) |->
        [rs[k] EXCEPT !.Routes =
            [i \in 1..Len(rs[k].Routes) |->
                [rs[k].Routes[i] EXCEPT !.RelativePath = basePath \o @]]]]

\* NewMultiRouter that reconfigures the routes before it checks basePath
NewMultiRouterCheckLast(basePath, rs) ==
    IF basePath = <<>> \/ basePath = <<"/">>
    THEN [mr |-> NilMultiRouter, err |-> BasePathError,
          routers |-> Reconfigure(basePath, rs)]
    ELSE [mr |-> MultiRouter(basePath, [k \in 1..Len(rs) |-> k], NilCORS),
          err |-> Nil, routers |-> Reconfigure(basePath, rs)]

\* NewMultiRouter: the MultiRouter and the error it returns, and the Router
\* objects after the call
NewMultiRouter(basePath, rs) ==
    IF basePath = <<>> \/ basePath = <<"/">>
    THEN [mr |-> NilMultiRouter, err |-> BasePathError, routers |-> rs]
    ELSE [mr |-> MultiRouter(basePath, [k \in 1..Len(rs) |-> k], NilCORS),
          err |-> Nil, routers |-> Reconfigure(basePath, rs)]

\* NewMultiRouterWithCORS that leaves the members' CORSConfig in place
NewMultiRouterWithCORSKeep(basePath, rs, corsConfig) ==
    LET r == NewMultiRouter(basePath, rs)
    IN IF r.err # Nil THEN r
       ELSE [r EXCEPT !.mr.CORSConfig = corsConfig]

\* NewMultiRouterWithCORS
NewMultiRouterWithCORS(basePath, rs, corsConfig) ==
    LET r == NewMultiRouter(basePath, rs)
    IN IF r.err # Nil THEN r
       ELSE [mr |-> [r.mr EXCEPT !.CORSConfig = corsConfig], err |-> Nil,
             routers |-> [k \in 1..Len(rs) |->
                             [r.routers[k] EXCEPT !.CORSConfig = NilCORS]]]

RECURSIVE ListRoutesFrom(_, _, _)
ListRoutesFrom(rs, members, k) ==
    IF k > Len(members) THEN <<>>
    ELSE [i \in 1..Len(rs[members[k]].Routes) |->
             <<rs[members[k]].Routes[i].Method, rs[members[k]].Routes[i].RelativePath>>]
         \o ListRoutesFrom(rs, members, k + 1)
\* MultiRouter.ListRoutes: method and stored template of every route of
\* every member, in order
ListRoutes(m, rs) == ListRoutesFrom(rs, m.Routers, 1)

RECURSIVE PathLoopLiteral(_, _, _)
\* PathLoop that compares ":name" segments like any other segment
PathLoopLiteral(routeSegments, pathSegments, i) ==
    IF i > Len(routeSegments) THEN TRUE
    ELSE IF routeSegments[i] # pathSegments[i] THEN FALSE
    ELSE PathLoopLiteral(routeSegments, pathSegments, i + 1)

RECURSIVE PathLoop(_, _, _)
\* the loop of MultiRouter.ServeHTTP over the segments of one route: a
\* ":name" segment always matches, any other must be equal
PathLoop(routeSegments, pathSegments, i) ==
    IF i > Len(routeSegments) THEN TRUE
    ELSE IF HasPrefixColon(routeSegments[i]) THEN PathLoop(routeSegments, pathSegments, i + 1)
    ELSE IF routeSegments[i] # pathSegments[i] THEN FALSE
    ELSE PathLoop(routeSegments, pathSegments, i + 1)

\* one route of the scan: same number of segments and PathLoop succeeds
PathMatch(route, path) ==
    LET routeSegments == Split(route.RelativePath)
        pathSegments == Split(path)
    IN Len(routeSegments) = Len(pathSegments) /\ PathLoop(routeSegments, pathSegments, 1)

RECURSIVE RouteScan(_, _, _, _, _)
\* the inner loop of MultiRouter.ServeHTTP over the Routes of one member:
\* a route whose path matches makes the member the matchingRouter, and ends
\* the scan if the request is OPTIONS or has the route's method
RouteScan(routes, i, request, member, found) ==
    IF i > Len(routes) THEN found
    ELSE IF PathMatch(routes[i], request.Path)
    THEN IF request.Method = "OPTIONS" \/ request.Method = routes[i].Method
         THEN [matchingRouter |-> member, routeFound |-> TRUE]
         ELSE RouteScan(routes, i + 1, request, member,
                        [found EXCEPT !.matchingRouter = member])
    ELSE RouteScan(routes, i + 1, request, member, found)

RECURSIVE RouterScan(_, _, _, _, _)
\* the outer loop over mr.Routers: matchingRouter (0: nil) and routeFound
RouterScan(rs, members, k, request, found) ==
    IF k > Len(members) THEN found
    ELSE LET f == RouteScan(rs[members[k]].Routes, 1, request, members[k], found)
         IN IF f.routeFound THEN f ELSE RouterScan(rs, members, k + 1, request, f)

\* the default CORS headers MultiRouter.ServeHTTP sets for a member Router
\* with no CORSConfig
MultiDefaultCORS(header) ==
    MapSet(MapSet(MapSet(MapSet(header, ACAO, Wildcard), ACAM, DefaultMethods),
                  ACAH, DefaultHeaders), ACAC, "false")

\* MultiRouter.ServeHTTP up to the point where it returns or the member
\* Router it forwards to hands over: the result of ServeHTTP and the member
\* forwarded to (owner, 0: none)
MultiRouterServeHTTP(m, rs, request, resp, alwaysOn) ==
    LET basePath == TrimSuffixSlash(m.BasePath)
        none == [matchingRouter |-> 0, routeFound |-> FALSE]
        scan == RouterScan(rs, m.Routers, 1, request, none)
        matchingRouter == rs[scan.matchingRouter]
        header ==
            IF ~m.CORSConfig.isNil
            THEN HandleCORS(m.CORSConfig, resp.header, request.Origin, request.Method,
                            alwaysOn)
            ELSE IF matchingRouter.CORSConfig.isNil THEN MultiDefaultCORS(resp.header)
            ELSE HandleCORS(matchingRouter.CORSConfig, resp.header, request.Origin,
                            request.Method, alwaysOn)
        w1 == [resp EXCEPT !.header = header]
        stop(r) == [w |-> r, matched |-> 0, routeContext |-> NoContext, pc |-> "done",
                    owner |-> 0]
    IN IF ~HasPrefix(request.Path, basePath)
       THEN stop(HttpError(resp, "404 page not found", StatusNotFound))
       ELSE IF ~scan.routeFound
       THEN stop(HttpError(resp, "404 page not found", StatusNotFound))
       ELSE IF request.Method = "OPTIONS" THEN stop([w1 EXCEPT !.status = StatusOK])
       ELSE LET r == ServeHTTP(matchingRouter, request, w1, alwaysOn)
            IN [w |-> r.w, matched |-> r.matched, routeContext |-> r.routeContext,
                pc |-> r.pc, owner |-> scan.matchingRouter]

\* ------------------------------------------------------------------- state
VARIABLES
    router,         \* the Router: BasePath, Routes, delegates, CORSConfig
    corsAlwaysOn,   \* the package variable of cors_config.go
    pc,             \* idle (setting up), auth, perm, handler, done, ready (for the next request)
    req,            \* the request in flight: Method, Path, Origin
    matched,        \* index in router.Routes of the route matched, 0 for none
    routeContext,   \* the RouteContext of the request in flight
    w,              \* the response: status (0: none written), body, header
    calls,          \* the delegates and handlers invoked for the request, in order
    permCall,       \* one call of HasRequiredPermissions: arguments and result
    corsCall,       \* one call of HandleCORS: arguments and resulting header
    routers,        \* the Router objects handed to a MultiRouter constructor
    mr,             \* the MultiRouter, nil until a constructor returns one
    mrCall,         \* the last constructor call: its arguments and its error
    regCall,        \* the last registration call: its kind and its arguments
    flights,        \* per concurrent ServeHTTP call: its locals and what its code observed
    contexts        \* the RouteContext objects allocated, by address

vars == <<router, corsAlwaysOn, pc, req, matched, routeContext, w, calls,
          permCall, corsCall, routers, mr, mrCall, regCall, flights, contexts>>
routerVars == <<router, corsAlwaysOn, pc, req, matched, routeContext, w, calls>>
multiVars == <<routers, mr, mrCall>>
concVars == <<flights, contexts>>

\* ------------------------------------------------------------------ inputs
PathUserId == <<"/", "u", "/", ":", "i">>
PathUserName == <<"/", "u", "/", ":", "n">>
PathUserMe == <<"/", "u", "/", "m">>

\* the registrations the application may make
HandleFuncCalls ==
    {[method |-> "GET", path |-> PathUserId, handler |-> "h1"],
     [method |-> "GET", path |-> PathUserMe, handler |-> "h2"]}
HandleProtectedFuncCalls ==
    {[method |-> "GET", path |-> PathUserName, requiredPermissions |-> Slice(<<1>>),
      handler |-> "h3"],
     [method |-> "POST", path |-> PathUserId, requiredPermissions |-> Slice(<<>>),
      handler |-> "h4"]}

BasePaths == {<<>>, <<"/", "a", "/">>}
ConfigA == CORSConfig(<<OriginA>>, <<"GET", "POST">>, <<>>, TRUE, 3600)
RouterCORSConfigs == {NilCORS, ConfigA}

Methods == {"GET", "POST", "OPTIONS", "get"}
Origins == {"", OriginA, OriginB}
PathSuffixes ==
    {<<"/", "u", "/", "4">>, <<"/", "u", "/", "m">>, <<"/", "u", "/", "4", "/">>,
     <<"/", "u">>}
Requests(rt) ==
    [Method : Methods, Path : {TrimRightSlash(rt.BasePath) \o p : p \in PathSuffixes},
     Origin : Origins]
NoRequest == [Method |-> "", Path |-> <<>>, Origin |-> ""]

HeldLists == SeqsUpTo(Permissions, MaxHeld)
\* the permissions the Permission delegate may find for a caller
SuppliedLists == {<<>>, <<1>>, <<2>>, <<2, 1>>}

IdlePermCall == [required |-> NilSlice, held |-> <<>>, done |-> FALSE, result |-> FALSE]
IdleCorsCall ==
    [config |-> NilCORS, origin |-> "", method |-> "", done |-> FALSE,
     header |-> EmptyMap]

\* a call of HandleFunc or HandleProtectedFunc with its arguments
RegCall(kind, method, path, requiredPermissions, handler) ==
    [kind |-> kind, method |-> method, path |-> path,
     requiredPermissions |-> requiredPermissions, handler |-> handler]
IdleRegCall == RegCall("", "", <<>>, NilSlice, "")
IdleMultiCall ==
    [called |-> FALSE, basePath |-> <<>>, withCORS |-> FALSE, corsConfig |-> NilCORS,
     err |-> Nil]
\* no MultiRouter is built
\* a goroutine that serves no request, and the heap with no RouteContext
Flights == 1..MaxInFlight
IdleFlight ==
    [pc |-> "idle", req |-> NoRequest, w |-> NewResponse, matched |-> 0, ctx |-> 0,
     login |-> "", calls |-> <<>>]
ConcIdle ==
    /\ flights = [f \in Flights |-> IdleFlight]
    /\ contexts = [a \in Flights |-> NoContext]

MultiIdle ==
    /\ routers = <<>>
    /\ mr = NilMultiRouter
    /\ mrCall = IdleMultiCall

\* -------------------------------------------------------------------- Init
\* a Router literal with no route yet, before it serves traffic
Init ==
    /\ router \in [BasePath : BasePaths, Routes : {<<>>},
                   AuthorizationMiddleware : {Nil, "set"},
                   PermissionMiddleware : {Nil, "set"},
                   CORSConfig : RouterCORSConfigs]
    /\ corsAlwaysOn = FALSE
    /\ pc = "idle"
    /\ req = NoRequest
    /\ matched = 0
    /\ routeContext = NoContext
    /\ w = NewResponse
    /\ calls = <<>>
    /\ permCall = IdlePermCall
    /\ corsCall = IdleCorsCall
    /\ MultiIdle
    /\ regCall = IdleRegCall
    /\ ConcIdle

\* ----------------------------------------------------------------- actions
\* SetCORSAlwaysOn (cors_config.go), called while the application starts
SetCORSAlwaysOn ==
    /\ pc = "idle"
    /\ \E alwaysOn \in BOOLEAN : corsAlwaysOn' = alwaysOn
    /\ UNCHANGED <<concVars, router, pc, req, matched, routeContext, w, calls, permCall, corsCall, multiVars, regCall>>

\* Router.HandleFunc
HandleFunc ==
    /\ pc = "idle"
    /\ Len(router.Routes) < MaxRoutes
    /\ \E c \in HandleFuncCalls :
          /\ router' = RouterHandleFunc(router, c.method, c.path, c.handler)
          /\ regCall' = RegCall("HandleFunc", c.method, c.path, NilSlice, c.handler)
    /\ UNCHANGED <<concVars, corsAlwaysOn, pc, req, matched, routeContext, w, calls, permCall,
                   corsCall, multiVars>>

\* Router.HandleProtectedFunc
HandleProtectedFunc ==
    /\ pc = "idle"
    /\ Len(router.Routes) < MaxRoutes
    /\ \E c \in HandleProtectedFuncCalls :
          /\ router' = RouterHandleProtectedFunc(router, c.method, c.path,
                                                 c.requiredPermissions, c.handler)
          /\ regCall' = RegCall("HandleProtectedFunc", c.method, c.path,
                                c.requiredPermissions, c.handler)
    /\ UNCHANGED <<concVars, corsAlwaysOn, pc, req, matched, routeContext, w, calls, permCall,
                   corsCall, multiVars>>

\* one entry of calls: what was invoked for which route, the identity and
\* Params of the context when it started, the permissions a Permission
\* delegate supplied, and whether a delegate invoked its next handler
Call(kind, held, next) ==
    [kind |-> kind, route |-> matched,
     handler |-> IF kind = "handler" THEN router.Routes[matched].Handler ELSE "",
     userId |-> routeContext.userId, params |-> routeContext.Params,
     held |-> held, next |-> next]

\* Router.ServeHTTP receives a request with a fresh ResponseWriter and runs
\* until it returns or hands over to the first delegate or to the handler
Dispatch ==
    /\ pc \in {"idle", "ready"}
    /\ \E request \in Requests(router) :
          LET r == ServeHTTP(router, request, NewResponse, corsAlwaysOn)
          IN /\ req' = request
             /\ w' = r.w
             /\ matched' = r.matched
             /\ routeContext' = r.routeContext
             /\ pc' = r.pc
    /\ calls' = <<>>
    /\ UNCHANGED <<concVars, router, corsAlwaysOn, permCall, corsCall, multiVars, regCall>>

\* the handler that router.AuthorizationMiddleware returned runs: it sets
\* the identity and invokes its next handler, or it rejects the request
AuthorizationMiddleware ==
    /\ pc = "auth"
    /\ \/ \E id \in UserIds :
             /\ routeContext' = [routeContext EXCEPT !.userId = id]
             /\ calls' = Append(calls, Call("auth", <<>>, TRUE))
             /\ pc' = "perm"
             /\ w' = w
       \/ /\ w' = HttpError(w, "Unauthorized", StatusUnauthorized)
          /\ calls' = Append(calls, Call("auth", <<>>, FALSE))
          /\ pc' = "done"
          /\ routeContext' = routeContext
    /\ UNCHANGED <<concVars, router, corsAlwaysOn, req, matched, permCall, corsCall, multiVars, regCall>>

\* the handler that router.PermissionMiddleware returned runs: it asks
\* HasRequiredPermissions about the permissions the caller holds and
\* invokes its next handler or rejects the request
PermissionMiddleware ==
    /\ pc = "perm"
    /\ \E userPermissions \in SuppliedLists :
          IF HasRequiredPermissions(routeContext.requiredPermissions, userPermissions)
          THEN /\ pc' = "handler"
               /\ w' = w
               /\ calls' = Append(calls, Call("perm", userPermissions, TRUE))
          ELSE /\ pc' = "done"
               /\ w' = HttpError(w, "Forbidden", StatusForbidden)
               /\ calls' = Append(calls, Call("perm", userPermissions, FALSE))
    /\ UNCHANGED <<concVars, router, corsAlwaysOn, req, matched, routeContext, permCall, corsCall, multiVars, regCall>>

\* route.Handler runs and writes its response
RouteHandler ==
    /\ pc = "handler"
    /\ calls' = Append(calls, Call("handler", <<>>, FALSE))
    /\ w' = [w EXCEPT !.status = StatusOK, !.body = router.Routes[matched].Handler]
    /\ pc' = "done"
    /\ UNCHANGED <<concVars, router, corsAlwaysOn, req, matched, routeContext, permCall, corsCall, multiVars, regCall>>

\* ServeHTTP has returned and the response is sent: the server is ready for
\* the next request
Return ==
    /\ pc = "done"
    /\ pc' = "ready"
    /\ req' = NoRequest
    /\ matched' = 0
    /\ routeContext' = NoContext
    /\ w' = NewResponse
    /\ calls' = <<>>
    /\ UNCHANGED <<concVars, router, corsAlwaysOn, permCall, corsCall, multiVars, regCall>>

Next ==
    \/ SetCORSAlwaysOn
    \/ HandleFunc
    \/ HandleProtectedFunc
    \/ Dispatch
    \/ AuthorizationMiddleware
    \/ PermissionMiddleware
    \/ RouteHandler
    \/ Return

Spec == Init /\ [][Next]_vars

\* ------------------------------------- HasRequiredPermissions on its own
RequiredSlices == {NilSlice} \cup {Slice(s) : s \in SeqsUpTo(Permissions, MaxRequired)}

IdleRouter ==
    [BasePath |-> <<>>, Routes |-> <<>>, AuthorizationMiddleware |-> Nil,
     PermissionMiddleware |-> Nil, CORSConfig |-> NilCORS]
RouterIdle ==
    /\ router = IdleRouter
    /\ regCall = IdleRegCall
    /\ ConcIdle
    /\ pc = "idle"
    /\ req = NoRequest
    /\ matched = 0
    /\ routeContext = NoContext
    /\ w = NewResponse
    /\ calls = <<>>

\* a RouteContext with any required permissions, asked about any held list
InitPerm ==
    /\ RouterIdle
    /\ MultiIdle
    /\ corsAlwaysOn = FALSE
    /\ corsCall = IdleCorsCall
    /\ permCall \in [required : RequiredSlices, held : HeldLists, done : {FALSE},
                     result : {FALSE}]

CallHasRequiredPermissions ==
    /\ ~permCall.done
    /\ permCall' = [permCall EXCEPT !.done = TRUE,
                       !.result = HasRequiredPermissions(permCall.required, permCall.held)]
    /\ UNCHANGED <<concVars, routerVars, corsCall, multiVars, regCall>>

NextPerm == CallHasRequiredPermissions
SpecPerm == InitPerm /\ [][NextPerm]_vars

\* --------------------------------------------------- HandleCORS on its own
OriginLists == SeqsUpTo({Wildcard, OriginA, OriginB}, MaxOrigins)
CORSConfigs ==
    {CORSConfig(o, m, h, c, a) :
        o \in OriginLists, m \in {<<>>, <<"GET", "POST">>},
        h \in {<<>>, <<"Content-Type", "X-Token">>}, c \in BOOLEAN, a \in {-1, 0, 3600}}

\* any policy, any request, either value of the toggle, a fresh response
InitCORS ==
    /\ RouterIdle
    /\ MultiIdle
    /\ corsAlwaysOn \in BOOLEAN
    /\ permCall = IdlePermCall
    /\ corsCall \in [config : CORSConfigs, origin : Origins, method : {"GET", "OPTIONS"},
                     done : {FALSE}, header : {EmptyMap}]

CallHandleCORS ==
    /\ ~corsCall.done
    /\ corsCall' = [corsCall EXCEPT !.done = TRUE,
                       !.header = HandleCORS(corsCall.config, NewResponse.header,
                                             corsCall.origin, corsCall.method,
                                             corsAlwaysOn)]
    /\ UNCHANGED <<concVars, router, pc, req, matched, routeContext, w, calls, corsAlwaysOn,
                   permCall, multiVars, regCall>>

NextCORS == CallHandleCORS
SpecCORS == InitCORS /\ [][NextCORS]_vars

\* ------------------------------------------------- registration on its own
RegBasePaths == {<<>>, <<"/">>, <<"/", "a">>, <<"/", "a", "/">>, <<"/", "a", "/", "/">>}
RegPaths == {<<"/">>, <<"/", "x">>, <<"/", ":", "i">>}
RegPermissions == {Slice(<<>>), Slice(<<1, 2>>)}

\* a Router literal with any BasePath and no route yet
InitReg ==
    /\ router \in [BasePath : RegBasePaths, Routes : {<<>>},
                   AuthorizationMiddleware : {Nil}, PermissionMiddleware : {Nil},
                   CORSConfig : {NilCORS}]
    /\ corsAlwaysOn = FALSE
    /\ pc = "idle"
    /\ req = NoRequest
    /\ matched = 0
    /\ routeContext = NoContext
    /\ w = NewResponse
    /\ calls = <<>>
    /\ permCall = IdlePermCall
    /\ corsCall = IdleCorsCall
    /\ MultiIdle
    /\ regCall = IdleRegCall
    /\ ConcIdle

\* Router.HandleFunc with any method, path and handler
CallHandleFunc ==
    /\ Len(router.Routes) < MaxRoutes
    /\ \E method \in {"GET", "POST"}, path \in RegPaths :
          /\ router' = RouterHandleFunc(router, method, path, "h1")
          /\ regCall' = RegCall("HandleFunc", method, path, NilSlice, "h1")
    /\ UNCHANGED <<concVars, corsAlwaysOn, pc, req, matched, routeContext, w, calls, permCall,
                   corsCall, multiVars>>

\* Router.HandleProtectedFunc with any path, permissions and handler
CallHandleProtectedFunc ==
    /\ Len(router.Routes) < MaxRoutes
    /\ \E path \in RegPaths, requiredPermissions \in RegPermissions :
          /\ router' = RouterHandleProtectedFunc(router, "GET", path,
                                                 requiredPermissions, "h3")
          /\ regCall' = RegCall("HandleProtectedFunc", "GET", path,
                                requiredPermissions, "h3")
    /\ UNCHANGED <<concVars, corsAlwaysOn, pc, req, matched, routeContext, w, calls, permCall,
                   corsCall, multiVars>>

NextReg == CallHandleFunc \/ CallHandleProtectedFunc
SpecReg == InitReg /\ [][NextReg]_vars

\* ------------------------------------------------- MultiRouter in service
\* a Router literal after its registrations
Member(basePath, regs, delegate, corsConfig) ==
    [BasePath |-> basePath,
     Routes |-> [i \in 1..Len(regs) |->
                    Route(regs[i].method, FixedPath(basePath, regs[i].path),
                          regs[i].requiredPermissions, regs[i].handler,
                          regs[i].protected)],
     AuthorizationMiddleware |-> delegate, PermissionMiddleware |-> delegate,
     CORSConfig |-> corsConfig]
Reg(method, path, requiredPermissions, handler, protected) ==
    [method |-> method, path |-> path, requiredPermissions |-> requiredPermissions,
     handler |-> handler, protected |-> protected]

\* /u with GET /:i and its own policy; /u with POST /:i; /o with GET / and a
\* protected GET /:i; a Router with no BasePath, GET /u/:i and GET /
MemberU ==
    Member(<<"/", "u">>, <<Reg("GET", <<"/", ":", "i">>, NilSlice, "hu", FALSE)>>,
           Nil, ConfigA)
MemberV ==
    Member(<<"/", "u">>, <<Reg("POST", <<"/", ":", "i">>, NilSlice, "hv", FALSE)>>,
           Nil, NilCORS)
MemberO ==
    Member(<<"/", "o">>,
           <<Reg("GET", <<"/">>, NilSlice, "ho", FALSE),
             Reg("GET", <<"/", ":", "i">>, Slice(<<1>>), "hp", TRUE)>>,
           "set", NilCORS)
MemberR ==
    Member(<<>>,
           <<Reg("GET", <<"/", "u", "/", ":", "i">>, NilSlice, "hr", FALSE),
             Reg("GET", <<"/">>, NilSlice, "he", FALSE)>>,
           Nil, NilCORS)
Members == {MemberU, MemberV, MemberO, MemberR}
MemberLists ==
    {l \in SeqsUpTo(Members, MaxMembers) :
        Len(l) >= 1 /\ \A i, j \in 1..Len(l) : l[i] = l[j] => i = j}

MultiBasePaths == {<<>>, <<"/">>, <<"/", "p">>, <<"/", "p", "/", "q">>}
ConfigB == CORSConfig(<<OriginB>>, <<"GET">>, <<>>, TRUE, 60)
MultiCORSConfigs == {ConfigB}
MultiSuffixes ==
    {<<>>, <<"/", "u", "/", "4">>, <<"/", "o">>, <<"/", "o", "/", "7">>,
     <<"/", "x", "/", "1">>}
MultiRequests(m) ==
    [Method : {"GET", "POST", "OPTIONS"},
     Path : {m.BasePath \o p : p \in MultiSuffixes}
              \cup {<<>>, <<"/">>, <<"/", "u", "/", "4">>},
     Origin : Origins]

\* Router objects with their routes registered, no MultiRouter yet
InitMulti ==
    /\ RouterIdle
    /\ corsAlwaysOn = FALSE
    /\ permCall = IdlePermCall
    /\ corsCall = IdleCorsCall
    /\ routers \in MemberLists
    /\ mr = NilMultiRouter
    /\ mrCall = IdleMultiCall

\* the application calls NewMultiRouter with all its Routers
CallNewMultiRouter ==
    /\ pc = "idle"
    /\ mr.isNil
    /\ \E basePath \in MultiBasePaths :
          LET r == NewMultiRouter(basePath, routers)
          IN /\ mr' = r.mr
             /\ routers' = r.routers
             /\ mrCall' = [called |-> TRUE, basePath |-> basePath, withCORS |-> FALSE,
                           corsConfig |-> NilCORS, err |-> r.err]
    /\ UNCHANGED <<concVars, routerVars, permCall, corsCall, regCall>>

\* the application calls NewMultiRouterWithCORS with all its Routers
CallNewMultiRouterWithCORS ==
    /\ pc = "idle"
    /\ mr.isNil
    /\ \E basePath \in MultiBasePaths, corsConfig \in MultiCORSConfigs :
          LET r == NewMultiRouterWithCORS(basePath, routers, corsConfig)
          IN /\ mr' = r.mr
             /\ routers' = r.routers
             /\ mrCall' = [called |-> TRUE, basePath |-> basePath, withCORS |-> TRUE,
                           corsConfig |-> corsConfig, err |-> r.err]
    /\ UNCHANGED <<concVars, routerVars, permCall, corsCall, regCall>>

\* MultiRouter.ServeHTTP receives a request with a fresh ResponseWriter and
\* runs until it returns or the member Router it forwarded to hands over;
\* router is then that member
MultiDispatch ==
    /\ pc \in {"idle", "ready"}
    /\ ~mr.isNil
    /\ \E request \in MultiRequests(mr) :
          LET r == MultiRouterServeHTTP(mr, routers, request, NewResponse, corsAlwaysOn)
          IN /\ req' = request
             /\ w' = r.w
             /\ matched' = r.matched
             /\ routeContext' = r.routeContext
             /\ pc' = r.pc
             /\ router' = IF r.owner = 0 THEN IdleRouter ELSE routers[r.owner]
    /\ calls' = <<>>
    /\ UNCHANGED <<concVars, corsAlwaysOn, permCall, corsCall, multiVars, regCall>>

\* MultiRouter.ServeHTTP has returned and the response is sent
MultiReturn ==
    /\ pc = "done"
    /\ pc' = "ready"
    /\ router' = IdleRouter
    /\ req' = NoRequest
    /\ matched' = 0
    /\ routeContext' = NoContext
    /\ w' = NewResponse
    /\ calls' = <<>>
    /\ UNCHANGED <<concVars, corsAlwaysOn, permCall, corsCall, multiVars, regCall>>

NextMulti ==
    \/ SetCORSAlwaysOn
    \/ CallNewMultiRouter
    \/ CallNewMultiRouterWithCORS
    \/ MultiDispatch
    \/ AuthorizationMiddleware
    \/ PermissionMiddleware
    \/ RouteHandler
    \/ MultiReturn

SpecMulti == InitMulti /\ [][NextMulti]_vars

\* ------------------------------------- concurrent requests on one Router
\* The host server runs one ServeHTTP call per request, each on its own
\* goroutine; the calls interleave at the points where ServeHTTP hands over
\* to a delegate or to the handler.  No registration runs meanwhile.

\* a Router with delegates, GET /u/:i, and a protected POST /u/:i that
\* requires permission 1
ConcRouter ==
    RouterHandleProtectedFunc(
        RouterHandleFunc([IdleRouter EXCEPT !.AuthorizationMiddleware = "set",
                                            !.PermissionMiddleware = "set"],
                         "GET", PathUserId, "h1"),
        "POST", PathUserId, Slice(<<1>>), "h4")
ConcRequests ==
    {[Method |-> "GET", Path |-> <<"/", "u", "/", "4">>, Origin |-> ""],
     [Method |-> "POST", Path |-> <<"/", "u", "/", "5">>, Origin |-> ""],
     [Method |-> "GET", Path |-> <<"/", "x">>, Origin |-> ""]}
ConcUserIds == {"alice", "bob"}
ConcHeldLists == {<<1>>, <<2>>}
\* the value a delegate or handler stores in the list it obtained
ConcWrittenValues == {2}

\* one RouteContext for the whole Router instead of one per call
NewRouteContextShared(f) == 1
\* routeContext := &RouteContext{...}: an object of its own for each call,
\* here at the address of the goroutine that allocates it
NewRouteContext(f) == f

\* rc.GetRequiredPermissions(): the slice the context holds, an error for nil
GetRequiredPermissions(rc) ==
    [list |-> rc.requiredPermissions,
     err |-> IF rc.requiredPermissions.isNil THEN "permissions not set" ELSE ""]

\* routeContext.requiredPermissions = route.RequiredPermissions assigns the
\* slice header: the context of a call that matched route i and the Route
\* share one backing array
SharesArray(fl, i) == fl.ctx # 0 /\ fl.matched = i
\* list[j] = v through the list of a call that matched route i: the Route's
\* slice after the write
RouteAfterWrite(route, j, v) ==
    [route EXCEPT !.RequiredPermissions.elems[j] = v]
\* ... and every RouteContext after it
ContextsAfterWrite(i, j, v) ==
    [a \in DOMAIN contexts |->
        IF \E f \in Flights : flights[f].ctx = a /\ SharesArray(flights[f], i)
        THEN [contexts[a] EXCEPT !.requiredPermissions.elems[j] = v]
        ELSE contexts[a]]

\* what a delegate or handler reads from the context it was given
Observed(kind, fl) ==
    LET rc == contexts[fl.ctx]
    IN [kind |-> kind, userId |-> rc.userId, params |-> rc.Params,
        customData |-> rc.CustomData,
        handler |-> IF kind = "handler" THEN router.Routes[fl.matched].Handler ELSE ""]

InitConc ==
    /\ router = ConcRouter
    /\ corsAlwaysOn = FALSE
    /\ pc = "idle"
    /\ req = NoRequest
    /\ matched = 0
    /\ routeContext = NoContext
    /\ w = NewResponse
    /\ calls = <<>>
    /\ permCall = IdlePermCall
    /\ corsCall = IdleCorsCall
    /\ MultiIdle
    /\ regCall = IdleRegCall
    /\ ConcIdle

concFrame == <<corsAlwaysOn, pc, req, matched, routeContext, w, calls, permCall,
               corsCall, multiVars, regCall>>

\* Router.ServeHTTP starts on an idle goroutine and runs until it returns
\* or hands over to the first delegate or to the handler
ConcDispatch ==
    /\ \E f \in Flights, request \in ConcRequests :
          LET r == ServeHTTP(router, request, NewResponse, corsAlwaysOn)
              a == NewRouteContext(f)
          IN /\ flights[f].pc = "idle"
             /\ flights' = [flights EXCEPT ![f] =
                               [pc |-> r.pc, req |-> request, w |-> r.w,
                                matched |-> r.matched,
                                ctx |-> IF r.matched = 0 THEN 0 ELSE a,
                                login |-> "", calls |-> <<>>]]
             /\ contexts' = IF r.matched = 0 THEN contexts
                            ELSE [contexts EXCEPT ![a] = r.routeContext]
    /\ UNCHANGED <<router, concFrame>>

\* the Authorization delegate of one call: it sets the identity and a
\* CustomData entry and invokes its next handler, or it rejects the request
ConcAuthorizationMiddleware ==
    /\ \E f \in Flights :
          LET fl == flights[f]
          IN /\ fl.pc = "auth"
             /\ \/ \E id \in ConcUserIds :
                      /\ contexts' = [contexts EXCEPT ![fl.ctx] =
                                         [@ EXCEPT !.userId = id,
                                                   !.CustomData = MapSet(@, "user", id)]]
                      /\ flights' = [flights EXCEPT ![f] =
                                        [fl EXCEPT !.pc = "perm", !.login = id,
                                                   !.calls = Append(@, Observed("auth", fl))]]
                \/ /\ flights' = [flights EXCEPT ![f] =
                                     [fl EXCEPT !.pc = "done",
                                                !.w = HttpError(@, "Unauthorized",
                                                                StatusUnauthorized),
                                                !.calls = Append(@, Observed("auth", fl))]]
                   /\ contexts' = contexts
    /\ UNCHANGED <<router, concFrame>>

\* the Permission delegate of one call
ConcPermissionMiddleware ==
    /\ \E f \in Flights, userPermissions \in ConcHeldLists :
          LET fl == flights[f]
          IN /\ fl.pc = "perm"
             /\ flights' = [flights EXCEPT ![f] =
                   IF HasRequiredPermissions(contexts[fl.ctx].requiredPermissions,
                                             userPermissions)
                   THEN [fl EXCEPT !.pc = "handler",
                                   !.calls = Append(@, Observed("perm", fl))]
                   ELSE [fl EXCEPT !.pc = "done",
                                   !.w = HttpError(@, "Forbidden", StatusForbidden),
                                   !.calls = Append(@, Observed("perm", fl))]]
    /\ UNCHANGED <<router, contexts, concFrame>>

\* route.Handler of one call runs and writes its response
ConcRouteHandler ==
    /\ \E f \in Flights :
          LET fl == flights[f]
          IN /\ fl.pc = "handler"
             /\ flights' = [flights EXCEPT ![f] =
                   [fl EXCEPT !.pc = "done",
                              !.w = [@ EXCEPT !.status = StatusOK,
                                              !.body = router.Routes[fl.matched].Handler],
                              !.calls = Append(@, Observed("handler", fl))]]
    /\ UNCHANGED <<router, contexts, concFrame>>

\* the Permission delegate or the handler of one call stores a value in the
\* list it obtained from GetRequiredPermissions
ConcWritePermission ==
    /\ \E f \in Flights :
          LET fl == flights[f]
          IN /\ fl.pc \in {"perm", "handler"}
             /\ LET got == GetRequiredPermissions(contexts[fl.ctx])
                IN /\ got.err = ""
                   /\ \E j \in 1..Len(got.list.elems), v \in ConcWrittenValues :
                         /\ got.list.elems[j] # v
                         /\ router' = [router EXCEPT !.Routes[fl.matched] =
                                          RouteAfterWrite(@, j, v)]
                         /\ contexts' = ContextsAfterWrite(fl.matched, j, v)
    /\ UNCHANGED <<flights, concFrame>>

\* ServeHTTP of one call has returned: its RouteContext is garbage and the
\* goroutine is free for the next request
ConcReturn ==
    /\ \E f \in Flights :
          /\ flights[f].pc = "done"
          /\ flights' = [flights EXCEPT ![f] = IdleFlight]
          /\ contexts' = IF flights[f].ctx = 0 THEN contexts
                         ELSE [contexts EXCEPT ![flights[f].ctx] = NoContext]
    /\ UNCHANGED <<router, concFrame>>

NextConc ==
    \/ ConcDispatch
    \/ ConcAuthorizationMiddleware
    \/ ConcPermissionMiddleware
    \/ ConcRouteHandler
    \/ ConcWritePermission
    \/ ConcReturn

SpecConc == InitConc /\ [][NextConc]_vars

\* ============================================================== properties
\* The vocabulary of the properties, stated without the loops of the code.

Range(l) == {l[i] : i \in 1..Len(l)}

\* a route is a match for a request: same method, same number of
\* segments, and every segment that is not a ":name" equal
StructMatch(route, request) ==
    LET rs == Split(route.RelativePath)
        ps == Split(request.Path)
    IN /\ route.Method = request.Method
       /\ Len(rs) = Len(ps)
       /\ \A j \in 1..Len(rs) : (rs[j] = <<>> \/ Head(rs[j]) # ":") => rs[j] = ps[j]

\* the routes of the Router that match the request in flight
Matching == {i \in 1..Len(router.Routes) : StructMatch(router.Routes[i], req)}
Earliest == CHOOSE i \in Matching : \A j \in Matching : i <= j

\* the Params a route's template prescribes for a request path
TemplateParams(route, request) ==
    LET rs == Split(route.RelativePath)
        ps == Split(request.Path)
        captures == {j \in 1..Len(rs) : rs[j] # <<>> /\ Head(rs[j]) = ":"}
    IN [name \in {Tail(rs[j]) : j \in captures} |->
           ps[CHOOSE j \in captures : Tail(rs[j]) = name]]

InFlight == pc \notin {"idle", "ready"}
Invoked(kind) == {k \in 1..Len(calls) : calls[k].kind = kind}
HandlerCalls(i) == {k \in Invoked("handler") : calls[k].route = i}
\* both delegates are set and each has invoked its next handler
ChainPassed ==
    /\ router.AuthorizationMiddleware # Nil
    /\ router.PermissionMiddleware # Nil
    /\ \E k \in Invoked("auth") : calls[k].next
    /\ \E k \in Invoked("perm") : calls[k].next

\* C1 (as stated): a non-OPTIONS request that exactly one route matches has
\* that route's handler invoked exactly once, with Params taken from the
\* ":name" segments of the template.
C1_HandlerInvokedOnUniqueMatch ==
    (pc = "done" /\ req.Method # "OPTIONS" /\ Cardinality(Matching) = 1) =>
        /\ Cardinality(HandlerCalls(Earliest)) = 1
        /\ \A k \in HandlerCalls(Earliest) :
              calls[k].params = TemplateParams(router.Routes[Earliest], req)

\* C1 (amended): a non-OPTIONS request that exactly one route matches is
\* dispatched to that route: every delegate and handler invoked is invoked
\* for that route with Params taken from the ":name" segments of its
\* template; when ServeHTTP has returned, the route's handler has been
\* invoked exactly once if the route is unprotected or both delegates are
\* set and invoked their next handler, and not at all otherwise; no other
\* handler is invoked.
C1_UniqueMatchDispatch ==
    (InFlight /\ req.Method # "OPTIONS" /\ Cardinality(Matching) = 1) =>
        /\ matched = Earliest
        /\ \A k \in 1..Len(calls) :
              /\ calls[k].route = Earliest
              /\ calls[k].params = TemplateParams(router.Routes[Earliest], req)
        /\ Cardinality(Invoked("handler")) <= 1
        /\ pc = "done" =>
              Cardinality(HandlerCalls(Earliest)) =
                 IF ~router.Routes[Earliest].Protected \/ ChainPassed THEN 1 ELSE 0

\* C1 witness: GET <base>/u/4 matched by the only route GET <base>/u/:i,
\* whose handler has run with Params["i"] = "4"
C1_Witness ==
    /\ pc = "done"
    /\ req.Method = "GET"
    /\ Cardinality(Matching) = 1
    /\ Len(calls) = 1
    /\ calls[1].kind = "handler"
    /\ calls[1].params = (<<"i">> :> <<"4">>)

\* C2: when several routes match a request, every handler invoked is the
\* handler of the route registered earliest among them, and the delegates
\* too run for that route only.
C2_FirstRegisteredWins ==
    (InFlight /\ req.Method # "OPTIONS" /\ Matching # {}) =>
        /\ matched = Earliest
        /\ \A k \in 1..Len(calls) :
              /\ calls[k].route = Earliest
              /\ calls[k].kind = "handler" =>
                    calls[k].handler = router.Routes[Earliest].Handler

\* C2 witness: GET <base>/u/m with GET /u/:i registered before the more
\* specific GET /u/m: the handler h1 of the first has run
C2_Witness ==
    /\ pc = "done"
    /\ Cardinality(Matching) = 2
    /\ router.Routes[1].Handler = "h1"
    /\ router.Routes[2].Handler = "h2"
    /\ Len(calls) = 1
    /\ calls[1].handler = "h1"

\* C3: a non-OPTIONS request that no route matches (method compared
\* case-sensitively, segment counts equal, literals equal) is answered 404
\* and neither a handler nor a delegate is invoked.
C3_NoMatchIs404 ==
    (InFlight /\ req.Method # "OPTIONS" /\ Matching = {}) =>
        /\ pc = "done"
        /\ w.status = StatusNotFound
        /\ calls = <<>>
        /\ matched = 0

\* C3 witness: GET <base>/u/4/ (a trailing slash) on a Router that has the
\* route GET <base>/u/:i is answered 404
C3_Witness ==
    /\ pc = "done"
    /\ req.Method = "GET"
    /\ req.Path = TrimRightSlash(router.BasePath) \o <<"/", "u", "/", "4", "/">>
    /\ \E i \in 1..Len(router.Routes) :
          StructMatch(router.Routes[i],
                      [req EXCEPT !.Path = SubSeq(req.Path, 1, Len(req.Path) - 1)])
    /\ w.status = StatusNotFound

\* C4: HasRequiredPermissions is true when the required permissions are
\* unset or empty, and otherwise true exactly when the set of required
\* permissions is contained in the set of held ones.
C4_PermissionContainment ==
    permCall.done =>
        permCall.result =
           (\/ permCall.required.isNil
            \/ Range(permCall.required.elems) \subseteq Range(permCall.held))

\* C4 witness: required <<2, 2>> (a duplicate) against held <<1, 2>> is true
C4_Witness ==
    /\ permCall.done
    /\ permCall.required = Slice(<<2, 2>>)
    /\ permCall.held = <<1, 2>>
    /\ permCall.result

\* C5: for a protected route with both delegates set, the Authorization
\* delegate is invoked first, the Permission delegate only after it invoked
\* its next handler, and the handler only after the Permission delegate
\* invoked its next handler, which it does only if every required
\* permission is held; after a rejection nothing else is invoked.
C5_DelegateOrder ==
    (InFlight /\ matched # 0 /\ router.Routes[matched].Protected
       /\ router.AuthorizationMiddleware # Nil /\ router.PermissionMiddleware # Nil) =>
        /\ Len(calls) <= 3
        /\ \A k \in 1..Len(calls) :
              /\ k = 1 => calls[k].kind = "auth"
              /\ k = 2 => calls[k].kind = "perm" /\ calls[1].next
              /\ k = 3 => calls[k].kind = "handler" /\ calls[2].next
              /\ (calls[k].kind = "perm" /\ calls[k].next) =>
                    Range(router.Routes[matched].RequiredPermissions.elems)
                       \subseteq Range(calls[k].held)
        /\ pc = "auth" => calls = <<>>
        /\ pc = "perm" => Len(calls) = 1
        /\ pc = "handler" => Len(calls) = 2

\* C5 witness: required <<1>>, the Permission delegate supplied <<2>> and
\* rejected; the handler has not run
C5_Witness ==
    /\ pc = "done"
    /\ matched # 0
    /\ router.Routes[matched].RequiredPermissions = Slice(<<1>>)
    /\ Len(calls) = 2
    /\ calls[1].kind = "auth"
    /\ calls[2].kind = "perm"
    /\ calls[2].held = <<2>>
    /\ ~calls[2].next
    /\ w.status = StatusForbidden

\* C6: a request matched by a protected route of a Router whose
\* Authorization or Permission delegate is unset is answered 500 and
\* neither a delegate nor the handler is invoked; registering a protected
\* route is possible whatever delegates are set.
C6_UnsetDelegateIs500 ==
    /\ (InFlight /\ req.Method # "OPTIONS" /\ Matching # {}
          /\ router.Routes[Earliest].Protected
          /\ (router.AuthorizationMiddleware = Nil \/ router.PermissionMiddleware = Nil)) =>
           /\ pc = "done"
           /\ w.status = StatusInternalServerError
           /\ calls = <<>>
    /\ (pc = "idle" /\ Len(router.Routes) < MaxRoutes) => ENABLED HandleProtectedFunc

\* C6 witness: the Authorization delegate is set, the Permission delegate is
\* not; the request to the protected route is answered 500, nothing invoked
C6_Witness ==
    /\ pc = "done"
    /\ matched # 0
    /\ router.Routes[matched].Protected
    /\ router.AuthorizationMiddleware # Nil
    /\ router.PermissionMiddleware = Nil
    /\ w.status = StatusInternalServerError
    /\ calls = <<>>

\* C7: a request matched by an unprotected route goes to the handler at
\* once: no delegate is invoked, the identity is unset when the handler
\* starts, and unset delegates cause no 500.
C7_UnprotectedDirect ==
    (InFlight /\ req.Method # "OPTIONS" /\ Matching # {}
       /\ ~router.Routes[Earliest].Protected) =>
        /\ pc \in {"handler", "done"}
        /\ Invoked("auth") = {} /\ Invoked("perm") = {}
        /\ w.status # StatusInternalServerError
        /\ \A k \in Invoked("handler") : calls[k].userId = "" /\ calls[k].route = Earliest
        /\ pc = "handler" => calls = <<>>
        /\ pc = "done" => Len(calls) = 1 /\ calls[1].kind = "handler"

\* C7 witness: both delegates unset, the handler of the unprotected route
\* has run and answered
C7_Witness ==
    /\ pc = "done"
    /\ router.AuthorizationMiddleware = Nil
    /\ router.PermissionMiddleware = Nil
    /\ Len(calls) = 1
    /\ calls[1].kind = "handler"
    /\ calls[1].userId = ""
    /\ w.status = StatusOK

\* the routes whose template matches the path of the request, whatever
\* their method
PathMatching ==
    {i \in 1..Len(router.Routes) :
        StructMatch(router.Routes[i], [req EXCEPT !.Method = router.Routes[i].Method])}

\* C8: every OPTIONS request ends with status 200 right after CORS
\* resolution: no route is matched, no handler and no delegate is invoked,
\* whether or not its path matches a route and whatever headers CORS set.
C8_PreflightShortCircuit ==
    (InFlight /\ req.Method = "OPTIONS") =>
        /\ pc = "done"
        /\ w.status = StatusOK
        /\ calls = <<>>
        /\ matched = 0

\* C8 witness: an OPTIONS request to the path of a registered route, from an
\* origin the policy does not list (no CORS header), answered 200
C8_Witness ==
    /\ pc = "done"
    /\ req.Method = "OPTIONS"
    /\ PathMatching # {}
    /\ ~router.CORSConfig.isNil
    /\ req.Origin = OriginB
    /\ DOMAIN w.header = {}
    /\ w.status = StatusOK

\* C9: with no "*" in AllowedOrigins, a request whose Origin is in the list
\* gets Access-Control-Allow-Origin equal to its Origin, and a request
\* whose Origin is present but not in the list gets no Access-Control-*
\* header.
C9_LiteralOriginOnly ==
    (corsCall.done /\ corsCall.origin # ""
       /\ Wildcard \notin Range(corsCall.config.AllowedOrigins)) =>
        IF corsCall.origin \in Range(corsCall.config.AllowedOrigins)
        THEN ACAO \in DOMAIN corsCall.header /\ corsCall.header[ACAO] = corsCall.origin
        ELSE DOMAIN corsCall.header \cap CORSHeaderNames = {}

\* C9 witness: AllowedOrigins <<a.com>>, Origin b.com: no header at all
C9_Witness ==
    /\ corsCall.done
    /\ corsCall.config.AllowedOrigins = <<OriginA>>
    /\ corsCall.origin = OriginB
    /\ DOMAIN corsCall.header = {}

\* the request carries an Origin that the Router's policy does not allow
CORSNonMatch ==
    /\ ~router.CORSConfig.isNil
    /\ req.Origin # ""
    /\ req.Origin \notin Range(router.CORSConfig.AllowedOrigins)
    /\ Wildcard \notin Range(router.CORSConfig.AllowedOrigins)

CORSHeaders(header) == DOMAIN header \cap CORSHeaderNames

\* C11: no response carries Access-Control-Allow-Origin "*" together with
\* Access-Control-Allow-Credentials "true", whatever the policy, the request
\* and the toggle.
C11_NoWildcardWithCredentials ==
    corsCall.done =>
        ~(HeaderGet(corsCall.header, ACAO) = Wildcard
            /\ HeaderGet(corsCall.header, ACAC) = "true")

\* C12: with "*" and a literal origin O both in AllowedOrigins (in either
\* order), AllowCredentials true and a request from O, the response has
\* Access-Control-Allow-Origin O and Access-Control-Allow-Credentials "true".
C12_WildcardDowngrade ==
    (corsCall.done /\ corsCall.origin # "" /\ corsCall.config.AllowCredentials
       /\ Wildcard \in Range(corsCall.config.AllowedOrigins)
       /\ corsCall.origin \in Range(corsCall.config.AllowedOrigins)) =>
        /\ HeaderGet(corsCall.header, ACAO) = corsCall.origin
        /\ HeaderGet(corsCall.header, ACAC) = "true"

\* C12 witness: AllowedOrigins <<"*", a.com>>, credentials allowed, Origin
\* a.com: the wildcard found first was replaced by a.com
C12_Witness ==
    /\ corsCall.done
    /\ corsCall.config.AllowedOrigins = <<Wildcard, OriginA>>
    /\ corsCall.config.AllowCredentials
    /\ corsCall.origin = OriginA
    /\ corsCall.header[ACAO] = OriginA
    /\ corsCall.header[ACAC] = "true"

\* C13: with the toggle off and a request without an Origin header, no
\* Access-Control-* header is emitted, whatever the policy.
C13_StrictModeNoOriginNoHeaders ==
    (corsCall.done /\ ~corsAlwaysOn /\ corsCall.origin = "") =>
        CORSHeaders(corsCall.header) = {}

\* the policy applied by the Router has "*" among its origins; the policy of
\* a Router with no CORSConfig counts as having it
PolicyHasWildcard ==
    router.CORSConfig.isNil \/ Wildcard \in Range(router.CORSConfig.AllowedOrigins)

\* C14: with the toggle on and a request without an Origin header, the
\* response has Access-Control-Allow-Origin "*" and
\* Access-Control-Allow-Credentials "false" if "*" is among the policy's
\* origins, and no Access-Control-* header otherwise.
C14_AlwaysOnNoOrigin ==
    (InFlight /\ corsAlwaysOn /\ req.Origin = "") =>
        IF PolicyHasWildcard
        THEN /\ HeaderGet(w.header, ACAO) = Wildcard
             /\ HeaderGet(w.header, ACAC) = "false"
        ELSE CORSHeaders(w.header) = {}

\* C15: Access-Control-Allow-Credentials is "true" only if the applied policy
\* allows credentials and the request has an Origin; every other response
\* that carries CORS headers has it "false".
C15_CredentialsOnlyWithOrigin ==
    (InFlight /\ CORSHeaders(w.header) # {}) =>
        IF ~router.CORSConfig.isNil /\ router.CORSConfig.AllowCredentials
              /\ req.Origin # ""
        THEN HeaderGet(w.header, ACAC) \in {"true", "false"}
        ELSE HeaderGet(w.header, ACAC) = "false"

\* C16: Access-Control-Max-Age is in the response exactly when other CORS
\* headers are, the method is OPTIONS and the policy's MaxAge is positive;
\* its value is MaxAge; it is never there without Access-Control-Allow-Origin.
C16_MaxAgeOnlyOnPreflight ==
    corsCall.done =>
        /\ ACMA \in DOMAIN corsCall.header <=>
              /\ CORSHeaders(corsCall.header) \ {ACMA} # {}
              /\ corsCall.method = "OPTIONS"
              /\ corsCall.config.MaxAge > 0
        /\ ACMA \in DOMAIN corsCall.header =>
              /\ corsCall.header[ACMA] = ToString(corsCall.config.MaxAge)
              /\ ACAO \in DOMAIN corsCall.header

\* C16 witness: an OPTIONS request from an allowed origin under a policy with
\* MaxAge 3600 got Access-Control-Max-Age "3600"
C16_Witness ==
    /\ corsCall.done
    /\ corsCall.method = "OPTIONS"
    /\ corsCall.config.MaxAge = 3600
    /\ corsCall.origin = OriginA
    /\ HeaderGet(corsCall.header, ACAO) = OriginA
    /\ HeaderGet(corsCall.header, ACMA) = "3600"

\* C17: a Router with no CORSConfig emits exactly the CORS headers of the
\* policy {AllowedOrigins: ["*"], AllowCredentials: false}, for every request
\* and both toggle values.
C17_DefaultPolicyIsWildcardNoCredentials ==
    (InFlight /\ router.CORSConfig.isNil) =>
        w.header = HandleCORS(CORSConfig(<<Wildcard>>, <<>>, <<>>, FALSE, 0),
                              EmptyMap, req.Origin, req.Method, corsAlwaysOn)

\* C18: for a request that carries an Origin, the CORS headers are the same
\* under both values of the toggle.
C18_ToggleOnlyWithoutOrigin ==
    (corsCall.done /\ corsCall.origin # "") =>
        corsCall.header = HandleCORS(corsCall.config, NewResponse.header,
                                     corsCall.origin, corsCall.method, ~corsAlwaysOn)

\* C18 witness: the toggle is on, the Origin b.com is not allowed by
\* AllowedOrigins <<a.com>>, and the response has no CORS header, as with the
\* toggle off
C18_Witness ==
    /\ corsCall.done
    /\ corsAlwaysOn
    /\ corsCall.config.AllowedOrigins = <<OriginA>>
    /\ corsCall.origin = OriginB
    /\ CORSHeaders(corsCall.header) = {}

\* ------------------------------------------------------------ MultiRouter
\* C19: a constructor call with basePath "" or "/" returns an error and no
\* MultiRouter, and changes no member Router: every stored path template is
\* as it was before the call.
C19_InvalidBasePathRejected ==
    [][(mrCall'.called /\ mrCall'.basePath \in {<<>>, <<"/">>}) =>
          /\ mrCall'.err # Nil
          /\ mr'.isNil
          /\ routers' = routers]_vars

\* C19 witness: NewMultiRouter("/", ...) has returned its error, there is no
\* MultiRouter, and the first Router's first template has no "/" put in front
C19_Witness ==
    /\ mrCall.called
    /\ mrCall.basePath = <<"/">>
    /\ mrCall.err = BasePathError
    /\ mr.isNil
    /\ routers[1] = MemberU
    /\ routers[1].Routes[1].RelativePath = <<"/", "u", "/", ":", "i">>

\* the request path after the MultiRouter's basePath, in segments
SegmentsAfterBase == Split(SubSeq(req.Path, Len(mr.BasePath) + 1, Len(req.Path)))

\* strings.TrimPrefix(strings.TrimSuffix(s, "/"), "/")
TrimSlashes(s) ==
    LET t == TrimSuffixSlash(s)
    IN IF t # <<>> /\ t[1] = "/" THEN Tail(t) ELSE t

\* the member Routers whose BasePath is the first segment after the
\* MultiRouter's basePath
Owners ==
    {k \in 1..Len(routers) :
        /\ HasPrefix(req.Path, mr.BasePath)
        /\ Len(SegmentsAfterBase) >= 2
        /\ TrimSlashes(routers[k].BasePath) = SegmentsAfterBase[2]}

\* the first of them in mr.Routers
Owner == CHOOSE k \in Owners : \A j \in Owners : k <= j

\* C20: when the first segment after the MultiRouter's basePath is the
\* BasePath of member Router R (the first such member), a request that is
\* not a preflight and that no route of R matches by method and path gets
\* not-found, and the only handlers ever invoked are R's.
C20_SoleOwner ==
    (InFlight /\ ~mr.isNil /\ req.Method # "OPTIONS" /\ Owners # {}) =>
        LET R == routers[Owner]
        IN /\ (\A i \in 1..Len(R.Routes) : ~StructMatch(R.Routes[i], req)) =>
                 w.status = StatusNotFound
           /\ \A k \in Invoked("handler") :
                 calls[k].handler \in {R.Routes[i].Handler : i \in 1..Len(R.Routes)}

\* the routes of the member Routers, as <<member, index>>
MemberRoutes ==
    UNION {{<<k, i>> : i \in 1..Len(routers[k].Routes)} : k \in 1..Len(routers)}
MemberRoute(m) == routers[m[1]].Routes[m[2]]
\* those that match the request in flight by method and path
MultiMatching == {m \in MemberRoutes : StructMatch(MemberRoute(m), req)}
\* those that match it by path, whatever their method
MultiPathMatching ==
    {m \in MemberRoutes :
        StructMatch(MemberRoute(m), [req EXCEPT !.Method = MemberRoute(m).Method])}

\* C21: under a MultiRouter whose basePath has one or several segments, a
\* request that matches a member route's method and rewritten template is
\* dispatched to such a route (an unprotected route's handler runs once and
\* answers 200), and a request under the basePath whose path matches no
\* member route gets 404 with nothing invoked.
C21_MultiRouterDispatch ==
    (InFlight /\ ~mr.isNil /\ HasPrefix(req.Path, mr.BasePath)) =>
        /\ MultiMatching # {} =>
              /\ w.status # StatusNotFound
              /\ matched # 0
              /\ \E m \in MultiMatching :
                    /\ router = routers[m[1]]
                    /\ matched = m[2]
              /\ (pc = "done" /\ ~router.Routes[matched].Protected) =>
                    /\ Len(calls) = 1
                    /\ calls[1].kind = "handler"
                    /\ calls[1].handler = router.Routes[matched].Handler
                    /\ w.status = StatusOK
        /\ MultiPathMatching = {} =>
              /\ w.status = StatusNotFound
              /\ calls = <<>>
              /\ pc = "done"

\* C21 witness: under basePath /p/q the request GET /p/q/u/4 was answered
\* 200 by the handler of the route GET /p/q/u/:i
C21_Witness ==
    /\ mr.BasePath = <<"/", "p", "/", "q">>
    /\ req.Method = "GET"
    /\ req.Path = <<"/", "p", "/", "q", "/", "u", "/", "4">>
    /\ pc = "done"
    /\ matched # 0
    /\ router.Routes[matched].RelativePath = <<"/", "p", "/", "q", "/", "u", "/", ":", "i">>
    /\ Len(calls) = 1
    /\ calls[1].handler = router.Routes[matched].Handler
    /\ w.status = StatusOK

\* the MultiRouter has found a route for the request in flight: one whose
\* path matches, with the request's method unless the request is OPTIONS
RouteFound ==
    IF req.Method = "OPTIONS" THEN MultiPathMatching # {} ELSE MultiMatching # {}

\* the CORS headers a policy resolves for the request in flight; a Router
\* with no CORSConfig has the policy {AllowedOrigins: ["*"]}
Resolved(config) ==
    HandleCORS(IF config.isNil THEN CORSConfig(<<Wildcard>>, <<>>, <<>>, FALSE, 0)
               ELSE config,
               EmptyMap, req.Origin, req.Method, corsAlwaysOn)

\* C22: the CORS headers of the response to a request the MultiRouter
\* dispatches are those resolved from the MultiRouter's CORSConfig alone when
\* it has one, and otherwise those resolved from the own policy of the member
\* Router that serves the request.
C22_CORSPrecedence ==
    (InFlight /\ ~mr.isNil /\ HasPrefix(req.Path, mr.BasePath) /\ RouteFound) =>
        IF ~mr.CORSConfig.isNil
        THEN w.header = Resolved(mr.CORSConfig)
        ELSE IF req.Method = "OPTIONS"
        THEN \E m \in MultiPathMatching : w.header = Resolved(routers[m[1]].CORSConfig)
        ELSE w.header = Resolved(router.CORSConfig)

\* C23: after a successful NewMultiRouterWithCORS every member Router has no
\* CORSConfig and the MultiRouter has the given one; a call that fails on
\* its basePath returns the error and clears no member's CORSConfig.
C23_WithCORSClearsMembers ==
    [][(mrCall'.called /\ mrCall'.withCORS) =>
          IF mrCall'.err = Nil
          THEN /\ ~mr'.isNil
               /\ mr'.CORSConfig = mrCall'.corsConfig
               /\ \A k \in 1..Len(routers') : routers'[k].CORSConfig.isNil
          ELSE /\ mr'.isNil
               /\ mrCall'.basePath \in {<<>>, <<"/">>}
               /\ Len(routers') = Len(routers)
               /\ \A k \in 1..Len(routers) :
                     routers'[k].CORSConfig = routers[k].CORSConfig]_vars

\* C23 witness: NewMultiRouterWithCORS("/p", ...) succeeded on a Router that
\* had its own CORSConfig: the Router has none now, the MultiRouter has the
\* given one
C23_Witness ==
    /\ mrCall.called
    /\ mrCall.withCORS
    /\ mrCall.err = Nil
    /\ mr.CORSConfig = ConfigB
    /\ routers[1].Routes[1].Handler = "hu"
    /\ routers[1].CORSConfig.isNil

\* ------------------------------------------------------------ registration
\* s without its trailing slashes
WithoutTrailingSlashes(s) ==
    LET n == CHOOSE k \in 0..Len(s) :
                 /\ k = 0 \/ s[k] # "/"
                 /\ \A j \in (k + 1)..Len(s) : s[j] = "/"
    IN SubSeq(s, 1, n)

C25_WildcardAnywhereWins ==
    (corsCall.done /\ corsCall.origin # "" /\ ~corsCall.config.AllowCredentials) =>
        /\ Wildcard \in Range(corsCall.config.AllowedOrigins) =>
              HeaderGet(corsCall.header, ACAO) = Wildcard
        /\ HeaderGet(corsCall.header, ACAO) = corsCall.origin =>
              Wildcard \notin Range(corsCall.config.AllowedOrigins)

\* the positions of AllowedOrigins that hold "*" or the request's Origin
OriginHits ==
    {i \in 1..Len(corsCall.config.AllowedOrigins) :
        corsCall.config.AllowedOrigins[i] \in {Wildcard, corsCall.origin}}

\* C25 (amended): with an Origin present and AllowCredentials false,
\* Access-Control-Allow-Origin is the first entry of AllowedOrigins that is
\* "*" or the request's Origin: the literal Origin when it stands before
\* "*" (or "*" is absent), "*" when it stands first; no Allow-Origin when the
\* list has neither.
C25_FirstListedWins ==
    (corsCall.done /\ corsCall.origin # "" /\ ~corsCall.config.AllowCredentials) =>
        IF OriginHits = {} THEN ACAO \notin DOMAIN corsCall.header
        ELSE LET first == CHOOSE i \in OriginHits : \A j \in OriginHits : i <= j
             IN HeaderGet(corsCall.header, ACAO) = corsCall.config.AllowedOrigins[first]

\* C25 witness: AllowedOrigins <<a.com, "*">>, no credentials, Origin a.com:
\* Allow-Origin is a.com although "*" is in the list
C25_Witness ==
    /\ corsCall.done
    /\ corsCall.config.AllowedOrigins = <<OriginA, Wildcard>>
    /\ ~corsCall.config.AllowCredentials
    /\ corsCall.origin = OriginA
    /\ HeaderGet(corsCall.header, ACAO) = OriginA

\* C26: in every response of a Router, Access-Control-Allow-Methods,
\* -Allow-Headers and -Allow-Credentials are present exactly when a non-empty
\* Access-Control-Allow-Origin is; Allow-Methods and Allow-Headers are the
\* policy's lists joined by commas, or the fixed defaults for an empty list.
C26_AllOrNothing ==
    InFlight =>
        /\ \A name \in {ACAM, ACAH, ACAC} :
              name \in DOMAIN w.header <=> HeaderGet(w.header, ACAO) # ""
        /\ ACAM \in DOMAIN w.header =>
              w.header[ACAM] = IF Len(router.CORSConfig.AllowedMethods) > 0
                               THEN Join(router.CORSConfig.AllowedMethods, ",")
                               ELSE "GET, POST, PUT, DELETE, OPTIONS"
        /\ ACAH \in DOMAIN w.header =>
              w.header[ACAH] = IF Len(router.CORSConfig.AllowedHeaders) > 0
                               THEN Join(router.CORSConfig.AllowedHeaders, ",")
                               ELSE "Content-Type, Authorization"

\* ---------------------------------------------------------- MultiRouter 2
\* C27: a successful constructor call puts the basePath in front of every
\* member route's stored template and leaves its method, handler,
\* permissions, protected flag and position as they were; once the
\* MultiRouter exists no step changes a stored template, and ListRoutes
\* keeps returning the same list.
C27_TemplatesRewrittenOnce ==
    [][/\ (mr.isNil /\ ~mr'.isNil) =>
             /\ Len(routers') = Len(routers)
             /\ \A k \in 1..Len(routers) :
                   /\ Len(routers'[k].Routes) = Len(routers[k].Routes)
                   /\ \A i \in 1..Len(routers[k].Routes) :
                         routers'[k].Routes[i] =
                            [routers[k].Routes[i] EXCEPT
                                !.RelativePath = mr'.BasePath \o @]
       /\ ~mr.isNil =>
             /\ ~mr'.isNil
             /\ ListRoutes(mr', routers') = ListRoutes(mr, routers)
             /\ \A k \in 1..Len(routers) : routers'[k].Routes = routers[k].Routes]_vars

\* C27 witness: after NewMultiRouter("/p/q", ...) on two Routers and a
\* request answered by a handler, the second Router's route still has the
\* template /p/q/u/:i
C27_Witness ==
    /\ ~mr.isNil
    /\ mr.BasePath = <<"/", "p", "/", "q">>
    /\ pc = "done"
    /\ Len(calls) = 1
    /\ calls[1].kind = "handler"
    /\ Len(routers) >= 2
    /\ routers[2].Routes[1].RelativePath = <<"/", "p", "/", "q", "/", "u", "/", ":", "i">>
    /\ ListRoutes(mr, routers)[1][2] = <<"/", "p", "/", "q", "/", "o">>

\* C30: a request whose path does not start with the MultiRouter's basePath
\* or has nothing after it (the empty path, "/" and the bare basePath
\* included) gets 404, and no member Router is invoked.
C30_ShortPathIs404 ==
    (InFlight /\ ~mr.isNil
       /\ (~HasPrefix(req.Path, mr.BasePath) \/ req.Path = mr.BasePath)) =>
        /\ pc = "done"
        /\ w.status = StatusNotFound
        /\ calls = <<>>
        /\ router = IdleRouter

\* the routes whose template and method fit a request, and the first of them
ConcMatching(request) ==
    {i \in 1..Len(router.Routes) : StructMatch(router.Routes[i], request)}
ConcEarliest(request) ==
    CHOOSE i \in ConcMatching(request) : \A j \in ConcMatching(request) : i <= j
\* the identity a call's own Authorization delegate has set when kind runs
OwnIdentity(fl, kind) == IF kind = "auth" THEN "" ELSE fl.login
OwnCustomData(fl, kind) ==
    IF OwnIdentity(fl, kind) = "" THEN EmptyMap
    ELSE MapSet(EmptyMap, "user", OwnIdentity(fl, kind))

\* C28: whatever a delegate or handler does to the list it obtained from
\* GetRequiredPermissions, every Route keeps the required permissions it
\* was registered with, so later permission checks are unaffected.
C28_RoutePermissionsUntouched ==
    \A i \in 1..Len(router.Routes) :
        router.Routes[i].RequiredPermissions = ConcRouter.Routes[i].RequiredPermissions

\* C29: under every interleaving of concurrent requests, each delegate and
\* handler observes the Params, the identity and the CustomData of its own
\* request only, and the handler invoked is that of the route matched for
\* its own request.
C29_OwnContextOnly ==
    \A f \in Flights :
        LET fl == flights[f]
        IN \A k \in 1..Len(fl.calls) :
              LET c == fl.calls[k]
                  i == ConcEarliest(fl.req)
              IN /\ ConcMatching(fl.req) # {}
                 /\ fl.matched = i
                 /\ c.params = TemplateParams(router.Routes[i], fl.req)
                 /\ c.userId = OwnIdentity(fl, c.kind)
                 /\ c.customData = OwnCustomData(fl, c.kind)
                 /\ c.kind = "handler" => c.handler = router.Routes[i].Handler
\* two requests in flight with different Params and identities, one of them
\* handled while the other waits for its handler
C29_Witness ==
    \E f, g \in Flights :
        /\ flights[f].login = "alice" /\ flights[g].login = "bob"
        /\ flights[f].pc = "done" /\ flights[f].w.status = StatusOK
        /\ flights[g].pc = "handler"

====
